---- MODULE Spec2Model ----
(***************************************************************************)
(* A model of iothub_client/src/message_queue.c: the two-list message      *)
(* queue (pending, in_progress), its enqueue, tick, completion and drain   *)
(* operations, translated from the C source.                               *)
(*                                                                         *)
(* Memory is modelled as far as the code needs it.  message_queue_add      *)
(* hands the MESSAGE_HANDLE itself to singlylinkedlist_add, so every list  *)
(* node's value is a message handle and every later                        *)
(* (MESSAGE_QUEUE_ITEM* )singlylinkedlist_item_get_value(...) reads the     *)
(* caller's message object through the layout of MESSAGE_QUEUE_ITEM.  The  *)
(* variable mem holds, per message handle, what those three fields read.   *)
(* The contents of a message object are the caller's: they are an input    *)
(* of message_queue_add, drawn from small sets.                            *)
(***************************************************************************)
EXTENDS Integers, Sequences, FiniteSets, TLC

\* ---------------------------------------------------------------- bounds
MaxAdds == 2      \* successful message_queue_add calls in one behaviour
MaxTime == 1      \* the clock runs 0..MaxTime
MaxSecs == 1      \* the two deadlines take values 0..MaxSecs

\* ------------------------------------------------------ program constants
RESULT_OK == 0
INDEFINITE_TIME == -1
FAILURE == 1                      \* __FAILURE__, any non-zero int
NULL == "NULL"

Messages == {"A", "B"}            \* non-null MESSAGE_HANDLE values
Words == Messages                 \* what a pointer-sized read of a message object yields
Times == 0 .. MaxTime
MESSAGE_QUEUE_RESULT ==
    {"MESSAGE_QUEUE_SUCCESS", "MESSAGE_QUEUE_ERROR", "MESSAGE_QUEUE_RETRYABLE_ERROR",
     "MESSAGE_QUEUE_TIMEOUT", "MESSAGE_QUEUE_CANCELLED"}
\* what a processor passes to the completion callback
ProcessorResults == {"MESSAGE_QUEUE_SUCCESS", "MESSAGE_QUEUE_TIMEOUT"}
Reasons == {"reason"}

VARIABLES
    max_message_enqueued_time_secs,    \* MESSAGE_QUEUE fields
    max_message_processing_time_secs,
    completed_callback,                \* on_message_processing_completed_callback != NULL
    pending,                           \* SINGLYLINKEDLIST of nodes [id, val]
    in_progress,
    last_id,                           \* how many items message_queue_add has admitted
    enqueue_time,                      \* per admitted item: the time line 127 read for it
    stamped_at,                        \* per admitted item: the time line 304 read for it
    mem,                               \* message objects read as MESSAGE_QUEUE_ITEM
    now,                               \* the clock
    pc,                                \* position of the running operation
    list_item,                         \* process_timeouts: the loop's list_item (a node id, 0 = NULL)
    current_time,                      \* process_timeouts: current_time
    log,                               \* invocations of the owner's notification callback
    processed,                         \* invocations of on_process_message_callback
    call,                              \* the last API call, its arguments and result
    snap                               \* the lists and log length when that call began

vars == <<max_message_enqueued_time_secs, max_message_processing_time_secs,
          completed_callback, pending, in_progress, last_id, enqueue_time,
          stamped_at, mem, now, pc,
          list_item, current_time, log, processed, call, snap>>

config == <<max_message_enqueued_time_secs, max_message_processing_time_secs,
            completed_callback>>

\* ---------------------------------------------------------------- helpers
Range(s) == {s[i] : i \in 1 .. Len(s)}
Ids(s) == [i \in 1 .. Len(s) |-> s[i].id]
IdSet(s) == {s[i].id : i \in 1 .. Len(s)}

\* An unmapped message object: no tracked node points at it, nothing reads it.
Unmapped == [message |-> "A", enqueue_time |-> 0, processing_start_time |-> INDEFINITE_TIME,
             freed |-> FALSE]

Referenced(p, pend, inpr) ==
    \E n \in Range(pend) \cup Range(inpr) : n.val = p

\* What a message object can hold where MESSAGE_QUEUE_ITEM has its fields.
\* enqueue_time is read only under max_message_enqueued_time_secs > 0 (lines
\* 230, 254) and processing_start_time only under
\* max_message_processing_time_secs > 0 (line 276): a field nothing reads
\* keeps one representative value.
EnqueueDeadlineNotNegative == max_message_enqueued_time_secs >= 0
EnqueueDeadlineSet == max_message_enqueued_time_secs > 0
ProcessingDeadlineSet == max_message_processing_time_secs > 0

EnqueueTimeReads == IF EnqueueDeadlineSet THEN Times ELSE {0}
ProcessingTimeReads == IF ProcessingDeadlineSet THEN Times ELSE {INDEFINITE_TIME}

\* freed: free(mq_item) has been called on the object (a list node still
\* points at it).
Contents ==
    [message : Words, enqueue_time : EnqueueTimeReads,
     processing_start_time : {INDEFINITE_TIME}, freed : {FALSE}]
FreedContents ==
    [message : Words, enqueue_time : EnqueueTimeReads,
     processing_start_time : ProcessingTimeReads, freed : {TRUE}]

\* Message objects no node points at are not read before the next
\* message_queue_add draws their contents afresh, and fields nothing reads
\* are not read at all: keep one representative of each.
Canon(m, pend, inpr) ==
    [p \in Messages |->
        IF Referenced(p, pend, inpr)
        THEN [message |-> m[p].message,
              enqueue_time |-> IF EnqueueDeadlineSet THEN m[p].enqueue_time ELSE 0,
              processing_start_time |->
                  IF ProcessingDeadlineSet THEN m[p].processing_start_time
                  ELSE INDEFINITE_TIME,
              freed |-> m[p].freed]
        ELSE Unmapped]

get_difftime(a, b) == a - b

\* singlylinkedlist: the node after the node with this id (0 = NULL)
get_next_item(list, id) ==
    LET i == CHOOSE j \in 1 .. Len(list) : list[j].id = id
    IN  IF i < Len(list) THEN list[i + 1].id ELSE 0

get_head_item(list) == IF list = <<>> THEN 0 ELSE list[1].id

item_of(list, id) == CHOOSE n \in Range(list) : n.id = id

Snapshot == [pending |-> pending, in_progress |-> in_progress, mem |-> mem,
             log |-> log, processed |-> Len(processed), time |-> now,
             enqueue_time |-> enqueue_time, stamped_at |-> stamped_at]

\* The part of the state dequeue_message_and_fire_callback works on, and what
\* its search loop came to: "found", "not_found", "hang" (the loop spins for
\* ever) or "abort" (the process dies in free or on a wild pointer).
State == [pending |-> pending, in_progress |-> in_progress, mem |-> mem, log |-> log,
          stamped_at |-> stamped_at, ret |-> "none"]

\* The two per-item times are kept for the claims about deadlines, each
\* while its item is in a list.
ItemIds == 1 .. MaxAdds
NoTimes == [i \in ItemIds |-> INDEFINITE_TIME]
KeptEnqueueTimes(times, pend, inpr) ==
    [i \in ItemIds |->
        IF i \in IdSet(pend) \cup IdSet(inpr) THEN times[i] ELSE INDEFINITE_TIME]
KeptStamps(times, inpr) ==
    [i \in ItemIds |-> IF i \in IdSet(inpr) THEN times[i] ELSE INDEFINITE_TIME]

Keep == UNCHANGED <<pending, in_progress, mem, log, enqueue_time, stamped_at>>

Commit(s, next_pc) ==
    /\ pending' = s.pending
    /\ in_progress' = s.in_progress
    /\ mem' = Canon(s.mem, s.pending, s.in_progress)
    /\ log' = s.log
    /\ enqueue_time' = KeptEnqueueTimes(enqueue_time, s.pending, s.in_progress)
    /\ stamped_at' = KeptStamps(s.stamped_at, s.in_progress)
    /\ pc' = CASE s.ret = "hang" -> "hung"
               [] s.ret = "abort" -> "aborted"
               [] OTHER -> next_pc

\* ------------------------------------- dequeue_message_and_fire_callback
\* free(mq_item) frees the message object the node pointed at.  What a later
\* read through another node with the same handle finds there is
\* indeterminate: any contents.  A second free of the same object either goes
\* through or ends the process.
free(s, p) ==
    LET freed == IF Referenced(p, s.pending, s.in_progress)
                 THEN {[s EXCEPT !.mem[p] = g] : g \in FreedContents}
                 ELSE {s}
    IN  IF s.mem[p].freed THEN freed \cup {[s EXCEPT !.ret = "abort"]} ELSE freed

\* A variant that fires the callback and leaves the node in its list.
dequeue_without_remove(s, callback, list, message, result, reason, via) ==
    IF s[list] = <<>>
    THEN {[s EXCEPT !.ret = "not_found"]}
    ELSE LET head == s[list][1]
             mq_item == s.mem[head.val]
         IN  IF mq_item.message = message
             THEN free(IF callback
                       THEN [s EXCEPT !.ret = "found", !.log = Append(@,
                                [id |-> head.id, message |-> mq_item.message,
                                 result |-> result, reason |-> reason,
                                 list |-> list, via |-> via])]
                       ELSE [s EXCEPT !.ret = "found"],
                       head.val)
             ELSE {[s EXCEPT !.ret = "hang"]}

\* callback: whether the on_message_processing_completed_callback read through
\* the message_queue argument is non-NULL.  The loop never advances list_item:
\* it ends at once on an empty list, removes the head when the head carries
\* `message`, and spins for ever otherwise.
dequeue_message_and_fire_callback(s, callback, list, message, result, reason, via) ==
    IF s[list] = <<>>
    THEN {[s EXCEPT !.ret = "not_found"]}
    ELSE LET head == s[list][1]
             mq_item == s.mem[head.val]
         IN  IF mq_item.message = message
             THEN LET removed == [s EXCEPT ![list] = Tail(@), !.ret = "found"]
                      fired == IF callback
                               THEN [removed EXCEPT !.log = Append(@,
                                        [id |-> head.id, message |-> mq_item.message,
                                         result |-> result, reason |-> reason,
                                         list |-> list, via |-> via])]
                               ELSE removed
                  IN  free(fired, head.val)
             ELSE {[s EXCEPT !.ret = "hang"]}

\* on_message_processing_completed_callback(message, result, reason, context):
\* context is cast to MESSAGE_QUEUE_HANDLE, but process_pending_messages hands
\* out (void* )mq_item as the context.  message_queue->in_progress and
\* message_queue->on_message_processing_completed_callback are then read out of
\* the message object, past the three fields of an item: what the list handle
\* reads ("null": NULL, "wild": a pointer to no list, or one of the queue's
\* own lists) and whether the callback pointer reads as the owner's callback
\* are indeterminate.
on_message_processing_completed_callback(s, message, result, reason, list, callback) ==
    IF list = "null"
    THEN {[s EXCEPT !.ret = "not_found"]}
    ELSE IF list = "wild"
    THEN {[s EXCEPT !.ret = "abort"]}
    ELSE dequeue_message_and_fire_callback(s, callback, list, message, result, reason,
                                           "completion")

ContextLists == {"null", "wild", "pending", "in_progress"}
ContextCallbacks == {FALSE, completed_callback}

\* ------------------------------------------------------------------- Init
\* message_queue_create (lines 67-107) mallocs the queue and stores the four
\* callback fields; the two deadlines are never written, and setOption
\* (lines 385-388) has an empty body: they hold whatever malloc returned.
Init ==
    /\ max_message_enqueued_time_secs \in 0 .. MaxSecs
    /\ max_message_processing_time_secs \in 0 .. MaxSecs
    /\ completed_callback \in BOOLEAN
    /\ pending = <<>>
    /\ in_progress = <<>>
    /\ last_id = 0
    /\ enqueue_time = NoTimes
    /\ stamped_at = NoTimes
    /\ mem = [p \in Messages |-> Unmapped]
    /\ now = 0
    /\ pc = "idle"
    /\ list_item = 0
    /\ current_time = 0
    /\ log = <<>>
    /\ processed = <<>>
    /\ call = [op |-> "create"]
    /\ snap = [pending |-> <<>>, in_progress |-> <<>>, mem |-> [p \in Messages |-> Unmapped],
               log |-> <<>>, processed |-> 0, time |-> 0,
               enqueue_time |-> NoTimes, stamped_at |-> NoTimes]

\* ------------------------------------------------------ message_queue_add
\* fault: which of malloc, time(NULL), singlylinkedlist_add fails ("none": none).
\* c: the contents of the message object, the caller's; a message object a
\* tracked node already points at keeps what it holds.
add_result(queue_null, message, fault) ==
    IF queue_null \/ message = NULL THEN 0        \* result = NULL; (line 116)
    ELSE IF fault # "none" THEN FAILURE
    ELSE RESULT_OK

message_queue_add(queue_null, message, fault, c) ==
    /\ pc = "idle"
    /\ snap' = Snapshot
    /\ call' = [op |-> "add", queue_null |-> queue_null, message |-> message,
                fault |-> fault, result |-> add_result(queue_null, message, fault)]
    /\ IF queue_null \/ message = NULL \/ fault # "none"
       THEN UNCHANGED <<pending, last_id, enqueue_time, mem>>
       ELSE /\ last_id < MaxAdds
            \* the list node's value is the message handle, not mq_item (line 133):
            \* the item malloc'ed at line 122 is filled in (lines 127, 141, 142)
            \* and never linked into a list, read or freed
            /\ last_id' = last_id + 1
            /\ pending' = Append(pending, [id |-> last_id + 1, val |-> message])
            /\ enqueue_time' = KeptEnqueueTimes([enqueue_time EXCEPT ![last_id + 1] = now],
                                                pending', in_progress)
            /\ mem' = [mem EXCEPT ![message] = c]
    /\ UNCHANGED <<config, in_progress, stamped_at, now, pc, list_item, current_time,
                   log, processed>>

\* The arguments of a call that returns at the null check (malloc is not reached).
AddRejected ==
    \E queue_null \in BOOLEAN, message \in Messages \cup {NULL} :
        /\ queue_null \/ message = NULL
        /\ message_queue_add(queue_null, message, "none", Unmapped)

AddFails ==
    \E message \in Messages, fault \in {"malloc", "time", "list"} :
        message_queue_add(FALSE, message, fault, Unmapped)

AddSucceeds ==
    \E message \in Messages :
        \E c \in IF Referenced(message, pending, in_progress) THEN {mem[message]} ELSE Contents :
            message_queue_add(FALSE, message, "none", c)

\* ------------------------------------------------- message_queue_is_empty
\* On a non-null queue and a non-null is_empty: what *is_empty is set to
\* (line 161); the call returns RESULT_OK and changes nothing.
message_queue_is_empty ==
    get_head_item(pending) = 0 /\ get_head_item(in_progress) = 0

\* -------------------------------------------------------------- the clock
ClockAdvances ==
    /\ pc = "idle"
    /\ now < MaxTime
    /\ now' = now + 1
    /\ call' = [op |-> "clock"]
    /\ snap' = [Snapshot EXCEPT !.time = now + 1]
    /\ UNCHANGED <<config, pending, in_progress, last_id, enqueue_time, stamped_at, mem,
                   pc, list_item, current_time, log, processed>>

\* ------------------------------------------------- message_queue_do_work
\* On a non-null queue (line 323; a null queue returns at once).
\* process_timeouts up to its first loop: the clock read (line 209) and the
\* two guards (lines 215, 261).
\* process_timeouts returns on leaving its last loop: its locals end there.
AfterEnqueueSweeps(inpr) ==
    IF ProcessingDeadlineSet
    THEN /\ pc' = "timeouts_processing"
         /\ list_item' = get_head_item(inpr)
         /\ UNCHANGED current_time
    ELSE /\ pc' = "process_pending_messages"
         /\ list_item' = 0
         /\ current_time' = 0

message_queue_do_work(clock_ok) ==
    /\ pc = "idle"
    /\ snap' = Snapshot
    \* failed: the items a dispatch step failed for; sync: the items the
    \* processor completed from within on_process_message_callback
    /\ call' = [op |-> "do_work", clock_ok |-> clock_ok, fault |-> FALSE, done |-> FALSE,
                failed |-> {}, sync |-> {}]
    /\ IF ~clock_ok
       THEN /\ pc' = "process_pending_messages"
            /\ UNCHANGED <<list_item, current_time>>
       ELSE IF EnqueueDeadlineSet
       THEN /\ current_time' = now
            /\ pc' = "timeouts_pending"
            /\ list_item' = get_head_item(pending)
       ELSE IF ProcessingDeadlineSet
       THEN /\ current_time' = now
            /\ pc' = "timeouts_processing"
            /\ list_item' = get_head_item(in_progress)
       ELSE /\ pc' = "process_pending_messages"
            /\ UNCHANGED <<list_item, current_time>>
    /\ UNCHANGED <<config, last_id, now, processed>>
    /\ Keep

DoWork == \E clock_ok \in BOOLEAN : message_queue_do_work(clock_ok)

\* lines 217-239: the sweep of pending for the enqueue deadline
timeouts_pending ==
    /\ pc = "timeouts_pending"
    /\ IF list_item = 0
       THEN /\ pc' = "timeouts_in_progress"
            /\ list_item' = get_head_item(in_progress)
            /\ Keep
       ELSE LET mq_item == mem[item_of(pending, list_item).val]
                next == get_next_item(pending, list_item)
            IN  IF get_difftime(current_time, mq_item.enqueue_time)
                       >= max_message_enqueued_time_secs
                THEN /\ \E s \in dequeue_message_and_fire_callback(State, completed_callback,
                                   "pending", mq_item.message, "MESSAGE_QUEUE_TIMEOUT", NULL,
                                   "timeouts_pending") :
                            Commit(s, "timeouts_pending")
                     /\ list_item' = next
                ELSE /\ pc' = "timeouts_in_progress"
                     /\ list_item' = get_head_item(in_progress)
                     /\ Keep
    /\ UNCHANGED <<config, last_id, now, current_time, processed, call, snap>>

\* lines 241-258: the sweep of in_progress for the enqueue deadline (no break)
timeouts_in_progress ==
    /\ pc = "timeouts_in_progress"
    /\ IF list_item = 0
       THEN /\ AfterEnqueueSweeps(in_progress)
            /\ Keep
       ELSE LET mq_item == mem[item_of(in_progress, list_item).val]
                next == get_next_item(in_progress, list_item)
            IN  IF get_difftime(current_time, mq_item.enqueue_time)
                       >= max_message_enqueued_time_secs
                THEN /\ \E s \in dequeue_message_and_fire_callback(State, completed_callback,
                                   "in_progress", mq_item.message, "MESSAGE_QUEUE_TIMEOUT", NULL,
                                   "timeouts_in_progress") :
                            Commit(s, "timeouts_in_progress")
                     /\ list_item' = next
                     /\ UNCHANGED current_time
                ELSE /\ list_item' = next
                     /\ UNCHANGED <<pc, current_time>> /\ Keep
    /\ UNCHANGED <<config, last_id, now, processed, call, snap>>

\* lines 261-286: the sweep of in_progress for the processing deadline
timeouts_processing ==
    /\ pc = "timeouts_processing"
    /\ IF list_item = 0
       THEN /\ pc' = "process_pending_messages"
            /\ list_item' = 0
            /\ current_time' = 0
            /\ Keep
       ELSE LET mq_item == mem[item_of(in_progress, list_item).val]
                next == get_next_item(in_progress, list_item)
            IN  IF get_difftime(current_time, mq_item.processing_start_time)
                       >= max_message_processing_time_secs
                THEN /\ \E s \in dequeue_message_and_fire_callback(State, completed_callback,
                                   "in_progress", mq_item.message, "MESSAGE_QUEUE_TIMEOUT", NULL,
                                   "timeouts_processing") :
                            Commit(s, "timeouts_processing")
                     /\ list_item' = next
                     /\ UNCHANGED current_time
                ELSE /\ pc' = "process_pending_messages"
                     /\ list_item' = 0
                     /\ current_time' = 0
                     /\ Keep
    /\ UNCHANGED <<config, last_id, now, processed, call, snap>>

\* singlylinkedlist_remove returns 0 when the node is in the list
singlylinkedlist_remove(list, id) == IF id \in IdSet(list) THEN 0 ELSE FAILURE

Handed == {processed[i].message : i \in 1 .. Len(processed)}

\* lines 290-319, one turn of the loop.  clock_ok: get_time succeeds;
\* add_ok: singlylinkedlist_add returns a node (non-NULL) rather than NULL;
\* list, callback: what the completion callback reads through its context.
process_pending_messages(clock_ok, add_ok, list, callback) ==
    /\ pc = "process_pending_messages"
    /\ IF pending = <<>>
       THEN /\ pc' = "idle"
            /\ call' = [call EXCEPT !.done = TRUE]
            /\ UNCHANGED processed
            /\ Keep
       ELSE LET head == pending[1]
                removed == [State EXCEPT !.pending = Tail(@)]
                time == IF clock_ok THEN now ELSE INDEFINITE_TIME
                stamped == [removed EXCEPT !.mem[head.val].processing_start_time = time,
                                           !.stamped_at[head.id] = time]
                added == [stamped EXCEPT !.in_progress = Append(@, head)]
                message == mem[head.val].message
            IN  IF singlylinkedlist_remove(pending, head.id) # 0
                THEN /\ \E s \in on_message_processing_completed_callback(State, message,
                                   "MESSAGE_QUEUE_ERROR", NULL, list, callback) :
                            Commit(s, "idle")
                     /\ call' = [call EXCEPT !.fault = TRUE, !.done = TRUE,
                                             !.failed = @ \cup {head.id}]
                     /\ UNCHANGED processed
                ELSE IF ~clock_ok
                THEN /\ \E s \in on_message_processing_completed_callback(stamped, message,
                                   "MESSAGE_QUEUE_ERROR", NULL, list, callback) :
                            Commit(s, "process_pending_messages")
                     /\ call' = [call EXCEPT !.fault = TRUE, !.failed = @ \cup {head.id}]
                     /\ UNCHANGED processed
                \* singlylinkedlist_add(...) != 0 holds when the add returned a node
                ELSE IF add_ok
                THEN /\ \E s \in on_message_processing_completed_callback(added, message,
                                   "MESSAGE_QUEUE_ERROR", NULL, list, callback) :
                            Commit(s, "process_pending_messages")
                     /\ UNCHANGED <<call, processed>>
                ELSE /\ Commit(stamped, "on_process_message_callback")
                     /\ processed' = Append(processed, [id |-> head.id, message |-> message])
                     /\ call' = [call EXCEPT !.fault = TRUE, !.failed = @ \cup {head.id}]
    /\ UNCHANGED <<config, last_id, now, list_item, current_time, snap>>

Dispatch ==
    \E clock_ok \in BOOLEAN, add_ok \in BOOLEAN, list \in ContextLists,
       callback \in ContextCallbacks :
        process_pending_messages(clock_ok, add_ok, list, callback)

\* The processor's on_process_message_callback returns.
on_process_message_callback_returns ==
    /\ pc = "on_process_message_callback"
    /\ pc' = "process_pending_messages"
    /\ UNCHANGED <<config, last_id, now, list_item, current_time, processed, call, snap>>
    /\ Keep

\* The processor invokes the completion callback it was handed, for a message
\* it was handed: from within on_process_message_callback or at any later
\* time, once or again.
processor_completes(message, result, reason, list, callback) ==
    /\ pc \in {"idle", "on_process_message_callback"}
    /\ message \in Handed
    /\ \E s \in on_message_processing_completed_callback(State, message, result, reason,
                                                        list, callback) :
           Commit(s, pc)
    /\ IF pc = "idle"
       THEN /\ call' = [op |-> "completion", message |-> message, result |-> result,
                        reason |-> reason]
            /\ snap' = Snapshot
       ELSE /\ call' = IF message = processed[Len(processed)].message
                       THEN [call EXCEPT !.sync = @ \cup {processed[Len(processed)].id}]
                       ELSE call
            /\ UNCHANGED snap
    /\ UNCHANGED <<config, last_id, now, list_item, current_time, processed>>

Completion ==
    \E message \in Words, result \in ProcessorResults, reason \in Reasons,
       list \in ContextLists, callback \in ContextCallbacks :
        processor_completes(message, result, reason, list, callback)

\* --------------------------------------------- message_queue_remove_all
\* On a non-null queue (line 332; a null queue returns at once).
message_queue_remove_all ==
    /\ pc = "idle"
    /\ snap' = Snapshot
    /\ call' = [op |-> "remove_all", done |-> FALSE]
    /\ pc' = "remove_in_progress"
    /\ UNCHANGED <<config, last_id, now, list_item, current_time, processed>>
    /\ Keep

\* lines 336-341
remove_in_progress ==
    /\ pc = "remove_in_progress"
    /\ IF in_progress = <<>>
       THEN /\ pc' = "remove_pending"
            /\ Keep
       ELSE \E s \in dequeue_message_and_fire_callback(State, completed_callback,
                         "in_progress", mem[in_progress[1].val].message,
                         "MESSAGE_QUEUE_CANCELLED", NULL, "remove_all") :
                Commit(s, "remove_in_progress")
    /\ UNCHANGED <<config, last_id, now, list_item, current_time, processed, call, snap>>

\* A variant that returns without draining pending.
remove_in_progress_only ==
    /\ pc = "remove_pending"
    /\ pc' = "idle"
    /\ call' = [call EXCEPT !.done = TRUE]
    /\ Keep
    /\ UNCHANGED <<config, last_id, now, list_item, current_time, processed, snap>>

\* lines 343-348
remove_pending ==
    /\ pc = "remove_pending"
    /\ IF pending = <<>>
       THEN /\ pc' = "idle"
            /\ call' = [call EXCEPT !.done = TRUE]
            /\ Keep
       ELSE /\ \E s \in dequeue_message_and_fire_callback(State, completed_callback,
                         "pending", mem[pending[1].val].message,
                         "MESSAGE_QUEUE_CANCELLED", NULL, "remove_all") :
                   Commit(s, "remove_pending")
            /\ UNCHANGED call
    /\ UNCHANGED <<config, last_id, now, list_item, current_time, processed, snap>>

Next == AddRejected \/ AddFails \/ AddSucceeds \/ ClockAdvances
     \/ DoWork \/ timeouts_pending \/ timeouts_in_progress \/ timeouts_processing
     \/ Dispatch \/ on_process_message_callback_returns \/ Completion
     \/ message_queue_remove_all \/ remove_in_progress \/ remove_pending

Spec == Init /\ [][Next]_vars

\* ================================================================ claims
Tracked == IdSet(pending) \cup IdSet(in_progress)
TrackedAtCall == Range(snap.pending) \cup Range(snap.in_progress)
NewLog == SubSeq(log, Len(snap.log) + 1, Len(log))
NewProcessed == SubSeq(processed, snap.processed + 1, Len(processed))
Returned(op) == call.op = op /\ call.done /\ pc = "idle"
Without(list, i) == SubSeq(list, 1, i - 1) \o SubSeq(list, i + 1, Len(list))

\* C1: the owner's notification callback is invoked at most once for each
\* item a successful message_queue_add admitted, whatever adds, ticks,
\* completions (duplicate or late ones too) and drains take place.  An item is
\* the list node the add linked into pending; a notification counts for the
\* node that was unlinked for it, whatever message value the callback is handed.
C1_AtMostOneNotification ==
    \A id \in 1 .. last_id : Cardinality({i \in DOMAIN log : log[i].id = id}) <= 1

\* C1's case: the processor completes a message again after the item that
\* carried it was notified through an earlier completion.
C1_Witness ==
    /\ call.op = "completion"
    /\ pc = "idle"
    /\ log = snap.log
    /\ \E i \in DOMAIN log : log[i].message = call.message /\ log[i].via = "completion"

\* C2: every admitted item that is in neither list has been notified (where a
\* notification callback is registered) with one of the five results.
C2_UntrackedItemsWereNotified ==
    completed_callback =>
        \A id \in 1 .. last_id :
            id \notin Tracked =>
                \E i \in DOMAIN log : log[i].id = id /\ log[i].result \in MESSAGE_QUEUE_RESULT

\* C3: with no deadline set and no internal failure, one message_queue_do_work
\* hands every message pending at its start to on_process_message_callback,
\* in enqueue order, each once, and leaves each in in_progress.
C3_TickDispatchesInOrder ==
    (/\ Returned("do_work") /\ call.clock_ok /\ ~call.fault
     /\ ~EnqueueDeadlineSet /\ ~ProcessingDeadlineSet)
    => /\ [i \in DOMAIN NewProcessed |-> NewProcessed[i].id] = Ids(snap.pending)
       /\ IdSet(snap.pending) \subseteq IdSet(in_progress)

\* C4: when message_queue_remove_all has returned, message_queue_is_empty
\* reports true, every item that was in a list when it was called has been
\* notified CANCELLED, and nothing else has been notified.
C4_RemoveAllCancelsEveryTrackedItem ==
    Returned("remove_all") =>
        /\ message_queue_is_empty
        /\ SubSeq(log, 1, Len(snap.log)) = snap.log
        /\ IF completed_callback
           THEN /\ Len(NewLog) = Cardinality(TrackedAtCall)
                /\ \A n \in TrackedAtCall :
                       \E i \in DOMAIN NewLog :
                           /\ NewLog[i].id = n.id
                           /\ NewLog[i].result = "MESSAGE_QUEUE_CANCELLED"
           ELSE NewLog = <<>>

\* C4's case: a drain of a queue that tracks an item and has already delivered
\* another item's result.
C4_Witness ==
    /\ Returned("remove_all")
    /\ completed_callback
    /\ snap.in_progress # <<>>
    /\ snap.log # <<>>
    /\ NewLog # <<>>

\* C5: with max_message_enqueued_time_secs = D > 0, an item enqueued at T that
\* is in a list when message_queue_do_work runs at a time >= T + D is notified
\* TIMEOUT in that tick, leaves its list and is not dispatched.
C5_EnqueueDeadlineTimesOut ==
    (Returned("do_work") /\ call.clock_ok /\ EnqueueDeadlineSet) =>
        \A n \in TrackedAtCall :
            get_difftime(snap.time, snap.enqueue_time[n.id]) >= max_message_enqueued_time_secs
            => /\ n.id \notin Tracked
               /\ \A i \in DOMAIN NewProcessed : NewProcessed[i].id # n.id
               /\ completed_callback =>
                      \E i \in DOMAIN NewLog :
                          NewLog[i].id = n.id /\ NewLog[i].result = "MESSAGE_QUEUE_TIMEOUT"

\* C6: with max_message_processing_time_secs = P > 0, every item of
\* in_progress stamped at least P before message_queue_do_work runs is
\* notified TIMEOUT in that tick and leaves in_progress.
C6_ProcessingDeadlineTimesOut ==
    (Returned("do_work") /\ call.clock_ok /\ ProcessingDeadlineSet) =>
        \A n \in Range(snap.in_progress) :
            get_difftime(snap.time, snap.stamped_at[n.id]) >= max_message_processing_time_secs
            => /\ n.id \notin IdSet(in_progress)
               /\ completed_callback =>
                      \E i \in DOMAIN NewLog :
                          NewLog[i].id = n.id /\ NewLog[i].result = "MESSAGE_QUEUE_TIMEOUT"

\* C7: with max_message_enqueued_time_secs = 0 no item times out while it is
\* in pending: no tick's sweep notifies TIMEOUT for an item it took out of
\* pending, however long the item waited and whatever the processing deadline.
\* (A TIMEOUT a processor passes to the completion callback is the processor's
\* result, not a deadline of the queue.)
C7_NoPendingTimeoutWithoutDeadline ==
    max_message_enqueued_time_secs = 0 =>
        \A i \in DOMAIN log :
            ~(/\ log[i].result = "MESSAGE_QUEUE_TIMEOUT"
              /\ log[i].list = "pending"
              /\ log[i].via # "completion")

\* C7's case: a tick, with the enqueue deadline 0 and a processing deadline
\* set, over an item that has waited in pending since an earlier time.
C7_Witness ==
    /\ Returned("do_work")
    /\ call.clock_ok
    /\ max_message_enqueued_time_secs = 0
    /\ ProcessingDeadlineSet
    /\ \E n \in Range(snap.pending) : get_difftime(snap.time, snap.enqueue_time[n.id]) >= 1

\* C8: message_queue_add with a null queue or a null message returns a
\* non-zero result, leaves both lists as they were and notifies nothing.
C8_AddRejectsNull ==
    (call.op = "add" /\ (call.queue_null \/ call.message = NULL)) =>
        /\ call.result # 0
        /\ pending = snap.pending
        /\ in_progress = snap.in_progress
        /\ log = snap.log

\* C9: a message_queue_add that fails on malloc, the clock or the list append
\* returns an error and leaves the lists and the log as they were; one that
\* succeeds appends at the tail of pending one item that carries the message
\* and the current time as its enqueue time.  (The model keeps an item's
\* enqueue_time field only under a set enqueue deadline, where it is read.)
C9_AddFailsCleanlyOrAppendsItem ==
    (call.op = "add" /\ ~call.queue_null /\ call.message # NULL) =>
        IF call.fault # "none"
        THEN /\ call.result # 0
             /\ pending = snap.pending
             /\ in_progress = snap.in_progress
             /\ log = snap.log
             /\ Len(processed) = snap.processed
        ELSE /\ call.result = RESULT_OK
             /\ in_progress = snap.in_progress
             /\ log = snap.log
             /\ Len(pending) = Len(snap.pending) + 1
             /\ SubSeq(pending, 1, Len(snap.pending)) = snap.pending
             /\ LET mq_item == mem[pending[Len(pending)].val]
                IN  /\ mq_item.message = call.message
                    /\ EnqueueDeadlineSet => mq_item.enqueue_time = snap.time

\* C10: a completion the processor reports for an item of in_progress, at
\* any position, removes exactly that item, forwards the same message, result
\* and reason to the owner's callback where one is registered, and leaves
\* every other item where it was.
C10_CompletionRemovesThatItem ==
    call.op = "completion" =>
        LET matches == {i \in DOMAIN snap.in_progress :
                           snap.mem[snap.in_progress[i].val].message = call.message}
        IN  matches # {} =>
                \E i \in matches :
                    /\ in_progress = Without(snap.in_progress, i)
                    /\ pending = snap.pending
                    /\ IF completed_callback
                       THEN /\ Len(log) = Len(snap.log) + 1
                            /\ SubSeq(log, 1, Len(snap.log)) = snap.log
                            /\ log[Len(log)].id = snap.in_progress[i].id
                            /\ log[Len(log)].message = call.message
                            /\ log[Len(log)].result = call.result
                            /\ log[Len(log)].reason = call.reason
                       ELSE log = snap.log

\* ---------------------------------------------------------- C11 .. C20
HandedTo(id) == \E i \in DOMAIN NewProcessed : NewProcessed[i].id = id
Notified(id) == \E i \in DOMAIN NewLog : NewLog[i].id = id
NotifiedWith(id, result) ==
    \E i \in DOMAIN NewLog : NewLog[i].id = id /\ NewLog[i].result = result
SweepRan == call.clock_ok /\ EnqueueDeadlineSet

\* C11: a completion for a message that no item of in_progress carries (the
\* item was removed before) returns, notifies nothing and leaves pending and
\* in_progress as they were, whatever in_progress holds.
C11_CompletionForRemovedItemIsNoOp ==
    (/\ call.op = "completion"
     /\ \A i \in DOMAIN snap.in_progress :
            snap.mem[snap.in_progress[i].val].message # call.message)
    => /\ pc = "idle"
       /\ log = snap.log
       /\ pending = snap.pending
       /\ in_progress = snap.in_progress

\* C12: in a tick whose enqueue-deadline sweep did not run, every item pending
\* at its start for which a dispatch step failed is notified ERROR (where a
\* callback is registered) and is not handed to on_process_message_callback;
\* every other one is handed to it and is not notified ERROR.
C12_DispatchFailureIsNotifiedError ==
    (Returned("do_work") /\ ~SweepRan) =>
        \A n \in Range(snap.pending) :
            IF n.id \in call.failed
            THEN /\ ~HandedTo(n.id)
                 /\ completed_callback => NotifiedWith(n.id, "MESSAGE_QUEUE_ERROR")
            ELSE /\ HandedTo(n.id)
                 /\ ~NotifiedWith(n.id, "MESSAGE_QUEUE_ERROR")

\* C13: when a tick in which a dispatch step failed returns, pending is empty
\* and every item that was pending and whose dispatch did not fail was handed
\* to on_process_message_callback or completed (it left the lists, notified
\* where a callback is registered).
C13_DispatchFailureDoesNotStall ==
    (Returned("do_work") /\ call.failed # {}) =>
        /\ pending = <<>>
        /\ \A n \in Range(snap.pending) :
               n.id \notin call.failed =>
                   \/ HandedTo(n.id)
                   \/ /\ n.id \notin Tracked
                      /\ completed_callback => Notified(n.id)

\* C14: no option is ever set on the queue (setOption stores nothing): both
\* deadlines are <= 0 and no tick's sweep notifies TIMEOUT.
C14_DeadlinesDisabledByDefault ==
    /\ max_message_enqueued_time_secs <= 0
    /\ max_message_processing_time_secs <= 0
    /\ \A i \in DOMAIN log :
           ~(log[i].result = "MESSAGE_QUEUE_TIMEOUT" /\ log[i].via # "completion")

\* C15: no item is in both lists or twice in a list, a notified item is in
\* neither list, and while on_process_message_callback runs for an item that
\* item is in in_progress (unless the processor completed it from within).
C15_ItemInOneListAndDispatchedFromInProgress ==
    /\ IdSet(pending) \cap IdSet(in_progress) = {}
    /\ Cardinality(IdSet(pending)) = Len(pending)
    /\ Cardinality(IdSet(in_progress)) = Len(in_progress)
    /\ \A i \in DOMAIN log : log[i].id \notin Tracked
    /\ pc = "on_process_message_callback" =>
           LET id == processed[Len(processed)].id
           IN  id \in IdSet(in_progress) \/ id \in call.sync

\* C16: the enqueue times the sweeps read along pending (lines 230) never
\* decrease from head to tail, nor do the processing-start times they read
\* along in_progress (line 276).
C16_ListsOrderedByTimestamp ==
    /\ EnqueueDeadlineSet =>
           \A i, j \in DOMAIN pending :
               i < j => mem[pending[i].val].enqueue_time <= mem[pending[j].val].enqueue_time
    /\ ProcessingDeadlineSet =>
           \A i, j \in DOMAIN in_progress :
               i < j => mem[in_progress[i].val].processing_start_time
                            <= mem[in_progress[j].val].processing_start_time

\* C17: when a tick whose enqueue-deadline sweep did not run returns, and the
\* processor completed an item from within on_process_message_callback, every
\* item pending at the tick's start was handed to the processor once, in
\* enqueue order, each item completed from within was notified once (where a
\* callback is registered) and is in neither list.
C17_SynchronousCompletionIsTolerated ==
    (Returned("do_work") /\ ~SweepRan /\ call.sync # {}) =>
        /\ [i \in DOMAIN NewProcessed |-> NewProcessed[i].id] = Ids(snap.pending)
        /\ \A id \in call.sync :
               /\ id \notin Tracked
               /\ completed_callback =>
                      Cardinality({i \in DOMAIN NewLog : NewLog[i].id = id}) = 1

\* C18: in a tick (clock read, enqueue deadline set) an item of pending whose
\* enqueue deadline had passed at the start is notified TIMEOUT and not handed
\* to the processor or moved to in_progress, and no item the tick dispatched
\* is notified TIMEOUT by that tick's sweeps.
C18_SweepRunsBeforeDispatch ==
    (Returned("do_work") /\ SweepRan) =>
        \A n \in Range(snap.pending) :
            /\ get_difftime(snap.time, snap.enqueue_time[n.id])
                   >= max_message_enqueued_time_secs
               => /\ ~HandedTo(n.id)
                  /\ n.id \notin IdSet(in_progress)
                  /\ completed_callback => NotifiedWith(n.id, "MESSAGE_QUEUE_TIMEOUT")
            /\ (HandedTo(n.id) \/ n.id \in IdSet(in_progress))
               => \A i \in DOMAIN NewLog :
                      ~(/\ NewLog[i].id = n.id
                        /\ NewLog[i].result = "MESSAGE_QUEUE_TIMEOUT"
                        /\ NewLog[i].via # "completion")

\* C19: a completion takes out of in_progress only an item that was handed to
\* the processor with that message (the item its context stands for), never
\* another item that merely carries an equal message.
C19_CompletionRemovesTheItemOfItsContext ==
    (call.op = "completion" /\ pc = "idle") =>
        IdSet(snap.in_progress) \ IdSet(in_progress)
            \subseteq {processed[i].id : i \in {j \in DOMAIN processed :
                                                   processed[j].message = call.message}}

\* C20: no search loop of dequeue_message_and_fire_callback spins for ever:
\* every tick, drain and completion comes to its end.
C20_SearchLoopTerminates ==
    pc # "hung"
====
